---- MODULE Spec2Model ----
(***************************************************************************)
(* Model of TelegripTeleoperator                                           *)
(* (src/src/lerobot/teleoperators/telegrip/telegrip_teleop.py) and of its  *)
(* configuration (config_telegrip.py).                                     *)
(*                                                                         *)
(* Two kinds of control run side by side: the caller's thread, which       *)
(* invokes connect / get_action / get_teleop_events / disconnect one at a  *)
(* time, and the background threads spawned by connect(), each running     *)
(* run_telegrip_in_thread.  The background closure reads self._loop and    *)
(* self._telegrip_system through self every time it uses them, so the      *)
(* model keeps those fields as shared state and the threads read them at   *)
(* each step.  The telegrip subsystem itself is external: its is_running   *)
(* flag, the outcome of start()/stop(), the presence of its robot          *)
(* interface and the VR events it hands out are environment choices.       *)
(***************************************************************************)
EXTENDS Naturals, Integers, Sequences, FiniteSets, TLC

\* ------------------------------------------------------------------------
\* Bounds
\* ------------------------------------------------------------------------
\* number of subsystem/thread objects connect() may create in one behaviour
MaxSpawn == 2
\* the same number in the behaviours that look at the values of the polls
MaxPollSpawn == 1
\* longest raw VR event sequence handed out by one get_vr_events() call
MaxEvents == 2

\* ------------------------------------------------------------------------
\* Values
\* ------------------------------------------------------------------------
\* Python's None for the object-valued fields
None == 0
\* identities of the objects created by connect(): the n-th spawning
\* connect() creates subsystem n and thread n; thread n creates loop n
Ids == 1..MaxSpawn

\* self._motor_names
_motor_names ==
    <<"shoulder_pan", "shoulder_lift", "elbow_flex", "wrist_flex", "wrist_roll", "gripper">>

\* the TeleopEvents members used as keys of the event record
EventKeys == {"SUCCESS", "FAILURE", "RERECORD_EPISODE", "IS_INTERVENTION", "TERMINATE_EPISODE"}

\* the "type" tags of raw VR event records ("unknown" stands for any other tag)
EventTypes == {"button_a", "button_b", "unknown"}

\* readings a robot interface hands out for one arm (six floats per side)
AngleSeqs == {<<1, 2, 3, 4, 5, 6>>, <<7, 8, 9, 10, 11, 12>>}

\* no stop() coroutine is scheduled
NoFuture == [state |-> "none", loop |-> None, sys |-> None]

\* the result of the caller's previous call when there is none yet
NoCall == [op |-> "none", outcome |-> "none", value |-> <<>>, events |-> <<>>, detail |-> "none"]

VARIABLES
    config,            \* self.config: bimanual, autoconnect, enable_robot
    spawn_limit,       \* how many subsystem/thread objects connect() may create
    _telegrip_system,  \* self._telegrip_system: None or a subsystem id
    _is_connected,     \* self._is_connected: the handshake flag
    _telegrip_thread,  \* self._telegrip_thread: None or a thread id
    _loop,             \* self._loop: None or a loop id
    _last_action,      \* self._last_action: <<>> for None, <<record>> otherwise
    spawned,           \* how many subsystem/thread objects connect() created
    is_running,        \* subsystem id -> its is_running flag (FALSE once garbage)
    tpc,               \* thread id -> position in run_telegrip_in_thread
    tloop,             \* thread id -> loop the thread is currently running
    tsys,              \* thread id -> subsystem whose start() it is awaiting, or None
    loopState,         \* loop id -> "unused" | "open" | "closed"
    loopStop,          \* loop id -> loop.stop has been scheduled on it
    stopFut,           \* future of the stop() coroutine scheduled by disconnect
    cpc,               \* position of the caller inside connect/disconnect
    ret                \* outcome of the caller's last finished call: its name, how
                       \* it ended, the value returned, what the subsystem handed
                       \* out to it (raw VR events, or the arm readings queried)

vars == <<config, spawn_limit, _telegrip_system, _is_connected, _telegrip_thread, _loop,
          _last_action, spawned, is_running, tpc, tloop, tsys, loopState,
          loopStop, stopFut, cpc, ret>>

\* what is fixed at construction
setup == <<config, spawn_limit>>
\* the adapter's own fields
fields == <<_telegrip_system, _is_connected, _telegrip_thread, _loop, _last_action>>
\* the objects living outside the adapter
threadVars == <<tpc, tloop, tsys>>
loopVars == <<loopState, loopStop>>

\* ------------------------------------------------------------------------
\* Properties of the adapter
\* ------------------------------------------------------------------------
\* the handshake flag alone, whatever the subsystem reports
IsConnectedFlagOnly ==
    IF _telegrip_system = None
    THEN FALSE
    ELSE _is_connected

\* is_connected, lines 92-97
is_connected ==
    IF _telegrip_system = None
    THEN FALSE
    ELSE is_running[_telegrip_system] /\ _is_connected

\* the key f"{prefix}{motor}.pos"
Key(prefix, motor) == prefix \o motor \o ".pos"

Range(s) == {s[i] : i \in DOMAIN s}

\* the keys {f"{prefix}{motor}.pos" for motor in self._motor_names}
PrefixedKeys(prefix) == {Key(prefix, m) : m \in Range(_motor_names)}

\* the bimanual branch giving both halves the same prefix, so that the
\* right half overwrites the left one
ActionFeaturesOnePrefix ==
    IF config.bimanual
    THEN PrefixedKeys("left_") \cup PrefixedKeys("left_")
    ELSE PrefixedKeys("")

\* action_features, lines 73-85 (the key set; every value is the type float)
action_features ==
    IF config.bimanual
    THEN PrefixedKeys("left_") \cup PrefixedKeys("right_")
    ELSE PrefixedKeys("")

\* feedback_features, lines 87-90
feedback_features == {}

\* is_calibrated, lines 173-176
is_calibrated == TRUE

\* ------------------------------------------------------------------------
\* Initial state: __init__, lines 49-71
\* ------------------------------------------------------------------------
InitWith(configs, limit) ==
    /\ config \in configs
    /\ spawn_limit = limit
    /\ _telegrip_system = None
    /\ _is_connected = FALSE
    /\ _telegrip_thread = None
    /\ _last_action = <<>>
    /\ _loop = None
    /\ spawned = 0
    /\ is_running = [s \in Ids |-> FALSE]
    /\ tpc = [t \in Ids |-> "unborn"]
    /\ tloop = [t \in Ids |-> None]
    /\ tsys = [t \in Ids |-> None]
    /\ loopState = [l \in Ids |-> "unused"]
    /\ loopStop = [l \in Ids |-> FALSE]
    /\ stopFut = NoFuture
    /\ cpc = "idle"
    /\ ret = NoCall

\* the record a finished call leaves behind
Result(op, outcome, value, events, detail) ==
    [op |-> op, outcome |-> outcome, value |-> value, events |-> events, detail |-> detail]

\* a call that raised or returned nothing
Outcome(op, outcome) == Result(op, outcome, <<>>, <<>>, "none")

\* a subsystem that neither the adapter nor a thread awaiting its start()
\* references any longer is garbage: its flag is never read again and is
\* dropped from the state (kept as FALSE)
Forget ==
    is_running' = [s \in Ids |->
                     is_running[s] /\ (s = _telegrip_system' \/ \E t \in Ids : tsys'[t] = s)]

\* the loop is being run (run_until_complete / run_forever) by some thread
Running(l) == \E t \in Ids : tloop[t] = l /\ tpc[t] \in {"in_start", "start_running", "forever"}

\* ------------------------------------------------------------------------
\* connect(), lines 99-171
\* ------------------------------------------------------------------------
\* the handler re-raising without resetting the flag
ConnectExceptKeepsFlag ==
    /\ UNCHANGED _is_connected
    /\ cpc' = "idle"
    /\ ret' = Outcome("connect", "raised")

\* the except handler of connect, lines 168-171: reset the flag and re-raise
ConnectExcept ==
    /\ _is_connected' = FALSE
    /\ cpc' = "idle"
    /\ ret' = Outcome("connect", "raised")

\* the successful end of connect, lines 165-166
ConnectSucceeds ==
    /\ _is_connected' = TRUE
    /\ cpc' = "idle"
    /\ ret' = Outcome("connect", "ok")

\* the check of lines 106-107 placed inside the try block: the handler of
\* lines 168-171 resets the flag before the error leaves
ConnectAlreadyConnectedInsideTry ==
    /\ cpc = "idle"
    /\ is_connected
    /\ _is_connected' = FALSE
    /\ ret' = Outcome("connect", "AlreadyConnected")
    /\ UNCHANGED <<setup, _telegrip_system, _telegrip_thread, _loop, _last_action,
                   spawned, is_running, threadVars, loopVars, stopFut, cpc>>

\* lines 106-107: connect() on a connected adapter
ConnectAlreadyConnected ==
    /\ cpc = "idle"
    /\ is_connected
    /\ ret' = Outcome("connect", "AlreadyConnected")
    /\ UNCHANGED <<setup, fields, spawned, is_running, threadVars, loopVars, stopFut, cpc>>

\* lines 111-135: the import or the construction of the subsystem raises
ConnectConstructFails ==
    /\ cpc = "idle"
    /\ ~is_connected
    /\ ConnectExcept
    /\ UNCHANGED <<setup, _telegrip_system, _telegrip_thread, _loop, _last_action,
                   spawned, is_running, threadVars, loopVars, stopFut>>

\* lines 135-153 with Thread.start() raising: the subsystem and the thread
\* object are assigned, the thread never runs
ConnectThreadStartFails ==
    /\ cpc = "idle"
    /\ ~is_connected
    /\ spawned < spawn_limit
    /\ spawned' = spawned + 1
    /\ _telegrip_system' = spawned + 1
    /\ _telegrip_thread' = spawned + 1
    /\ ConnectExcept
    /\ UNCHANGED <<setup, _loop, _last_action, threadVars, loopVars, stopFut>>
    /\ Forget

\* lines 135-153: construct the subsystem, create and start the thread; the
\* caller then sleeps (line 156)
ConnectSpawn ==
    /\ cpc = "idle"
    /\ ~is_connected
    /\ spawned < spawn_limit
    /\ spawned' = spawned + 1
    /\ _telegrip_system' = spawned + 1
    /\ _telegrip_thread' = spawned + 1
    /\ tpc' = [tpc EXCEPT ![spawned + 1] = "started"]
    /\ cpc' = "settle"
    /\ UNCHANGED <<setup, _is_connected, _loop, _last_action, tloop, tsys,
                   loopVars, stopFut, ret>>
    /\ Forget

\* lines 156-166: the settle delay is over; without auto-engage connect ends
ConnectSettled ==
    /\ cpc = "settle"
    /\ IF config.autoconnect /\ config.enable_robot
       THEN /\ cpc' = "engage"
            /\ UNCHANGED <<_is_connected, ret>>
       ELSE ConnectSucceeds
    /\ UNCHANGED <<setup, _telegrip_system, _telegrip_thread, _loop, _last_action,
                   spawned, is_running, threadVars, loopVars, stopFut>>

\* lines 161-166: after the second delay, engage() is called if the control
\* loop and the robot interface are there, and returns
ConnectEngageOk ==
    /\ cpc = "engage"
    /\ ConnectSucceeds
    /\ UNCHANGED <<setup, _telegrip_system, _telegrip_thread, _loop, _last_action,
                   spawned, is_running, threadVars, loopVars, stopFut>>

\* lines 162-163, 168-171: engage() raises
ConnectEngageFails ==
    /\ cpc = "engage"
    /\ ConnectExcept
    /\ UNCHANGED <<setup, _telegrip_system, _telegrip_thread, _loop, _last_action,
                   spawned, is_running, threadVars, loopVars, stopFut>>

\* ------------------------------------------------------------------------
\* run_telegrip_in_thread, lines 138-149, one instance per started thread
\* ------------------------------------------------------------------------
\* lines 140-141: self._loop = asyncio.new_event_loop()
ThreadNewLoop(t) ==
    /\ tpc[t] = "started"
    /\ loopState' = [loopState EXCEPT ![t] = "open"]
    /\ _loop' = t
    /\ tpc' = [tpc EXCEPT ![t] = "assigned"]
    /\ UNCHANGED <<setup, _telegrip_system, _is_connected, _telegrip_thread, _last_action,
                   spawned, is_running, tloop, tsys, loopStop, stopFut, cpc, ret>>

\* entering self._loop.run_until_complete / self._loop.run_forever: the
\* attribute lookup fails on None, and the loop refuses when it is closed or
\* already running
CanRun(l) == l # None /\ loopState[l] = "open" /\ ~Running(l)

\* line 143: self._loop.run_until_complete(self._telegrip_system.start())
ThreadRunUntilComplete(t) ==
    /\ tpc[t] = "assigned"
    /\ IF _telegrip_system # None /\ CanRun(_loop)
       THEN /\ tpc' = [tpc EXCEPT ![t] = "in_start"]
            /\ tloop' = [tloop EXCEPT ![t] = _loop]
            /\ tsys' = [tsys EXCEPT ![t] = _telegrip_system]
       ELSE /\ tpc' = [tpc EXCEPT ![t] = "finally"]
            /\ UNCHANGED <<tloop, tsys>>
    /\ UNCHANGED <<setup, fields, spawned, is_running, loopVars, stopFut, cpc, ret>>

\* the subsystem's start() reports itself running
StartSetsRunning(t) ==
    /\ tpc[t] = "in_start"
    /\ is_running' = [is_running EXCEPT ![tsys[t]] = TRUE]
    /\ tpc' = [tpc EXCEPT ![t] = "start_running"]
    /\ UNCHANGED <<setup, fields, spawned, tloop, tsys, loopVars, stopFut, cpc, ret>>

\* start() returns: run_until_complete returns, line 145 is next
StartReturns(t) ==
    /\ tpc[t] = "start_running"
    /\ tpc' = [tpc EXCEPT ![t] = "after_start"]
    /\ tloop' = [tloop EXCEPT ![t] = None]
    /\ tsys' = [tsys EXCEPT ![t] = None]
    /\ UNCHANGED <<setup, fields, spawned, loopVars, stopFut, cpc, ret>>
    /\ Forget

\* start() raises, before or after it reported running: lines 146-147
StartRaises(t) ==
    /\ tpc[t] \in {"in_start", "start_running"}
    /\ tpc' = [tpc EXCEPT ![t] = "finally"]
    /\ tloop' = [tloop EXCEPT ![t] = None]
    /\ tsys' = [tsys EXCEPT ![t] = None]
    /\ UNCHANGED <<setup, fields, spawned, loopVars, stopFut, cpc, ret>>
    /\ Forget

\* line 145: self._loop.run_forever()
ThreadRunForever(t) ==
    /\ tpc[t] = "after_start"
    /\ IF CanRun(_loop)
       THEN /\ tpc' = [tpc EXCEPT ![t] = "forever"]
            /\ tloop' = [tloop EXCEPT ![t] = _loop]
       ELSE /\ tpc' = [tpc EXCEPT ![t] = "finally"]
            /\ UNCHANGED tloop
    /\ UNCHANGED <<setup, fields, spawned, is_running, tsys, loopVars, stopFut, cpc, ret>>

\* the loop the thread runs executes a scheduled loop.stop: run_forever
\* returns, run_until_complete raises; either way line 149 is next
ThreadLoopStopped(t) ==
    /\ tpc[t] \in {"in_start", "start_running", "forever"}
    /\ loopStop[tloop[t]]
    /\ loopStop' = [loopStop EXCEPT ![tloop[t]] = FALSE]
    /\ tpc' = [tpc EXCEPT ![t] = "finally"]
    /\ tloop' = [tloop EXCEPT ![t] = None]
    /\ tsys' = [tsys EXCEPT ![t] = None]
    /\ UNCHANGED <<setup, fields, spawned, loopState, stopFut, cpc, ret>>
    /\ Forget

\* line 149: self._loop.close(), which drops the callbacks still scheduled on
\* the loop; it raises on None and on a loop another thread is running, and
\* the thread ends either way
ThreadFinally(t) ==
    /\ tpc[t] = "finally"
    /\ tpc' = [tpc EXCEPT ![t] = "dead"]
    /\ IF _loop # None /\ ~Running(_loop)
       THEN /\ loopState' = [loopState EXCEPT ![_loop] = "closed"]
            /\ loopStop' = [loopStop EXCEPT ![_loop] = FALSE]
       ELSE UNCHANGED loopVars
    /\ UNCHANGED <<setup, fields, spawned, is_running, tloop, tsys, stopFut, cpc, ret>>

\* ------------------------------------------------------------------------
\* The subsystem on its own
\* ------------------------------------------------------------------------
\* the subsystem is still referenced by the adapter or by a thread awaiting
\* its start(); the flag of any other subsystem is never read again
Referenced(s) == s = _telegrip_system \/ \E t \in Ids : tsys[t] = s

\* the subsystem stops reporting running without any adapter call
SysSelfStop(s) ==
    /\ is_running[s]
    /\ Referenced(s)
    /\ is_running' = [is_running EXCEPT ![s] = FALSE]
    /\ UNCHANGED <<setup, fields, spawned, threadVars, loopVars, stopFut, cpc, ret>>

\* the stop() coroutine scheduled by disconnect runs to its end on its loop
StopCompletes ==
    /\ stopFut.state = "pending"
    /\ Running(stopFut.loop)
    /\ is_running' = [is_running EXCEPT ![stopFut.sys] = FALSE]
    /\ stopFut' = [stopFut EXCEPT !.state = "done"]
    /\ UNCHANGED <<setup, fields, spawned, threadVars, loopVars, cpc, ret>>

\* the stop() coroutine raises on its loop
StopRaises ==
    /\ stopFut.state = "pending"
    /\ Running(stopFut.loop)
    /\ stopFut' = [stopFut EXCEPT !.state = "raised"]
    /\ UNCHANGED <<setup, fields, spawned, is_running, threadVars, loopVars, cpc, ret>>

\* ------------------------------------------------------------------------
\* get_action(), lines 189-231
\* ------------------------------------------------------------------------
Min(a, b) == IF a <= b THEN a ELSE b

\* float(angle): the readings are numbers already and keep their value
ToFloat(angle) == angle

\* zip(self._motor_names, angles): pairs up to the shorter length
Zip(names, angles) == [i \in 1..Min(Len(names), Len(angles)) |-> <<names[i], angles[i]>>]

\* the loops of lines 211-212, 216-217, 221-222:
\* action[f"{prefix}{motor_name}.pos"] = float(angle) for each pair in turn
RECURSIVE StoreAngles(_, _, _)
StoreAngles(action, prefix, pairs) ==
    IF pairs = <<>>
    THEN action
    ELSE StoreAngles((Key(prefix, Head(pairs)[1]) :> ToFloat(Head(pairs)[2])) @@ action,
                     prefix, Tail(pairs))

\* the left_ keys filled from the right arm's reading and the right_ keys
\* from the left arm's
BuildActionSwapped(robot_interface, left_angles, right_angles) ==
    IF robot_interface
    THEN IF config.bimanual
         THEN StoreAngles(StoreAngles(<<>>, "left_", Zip(_motor_names, right_angles)),
                          "right_", Zip(_motor_names, left_angles))
         ELSE StoreAngles(<<>>, "", Zip(_motor_names, left_angles))
    ELSE <<>>

\* lines 203-224: the record built from the readings; the left arm is read
\* only in bimanual mode; without a robot interface the record stays empty
BuildAction(robot_interface, left_angles, right_angles) ==
    IF robot_interface
    THEN IF config.bimanual
         THEN StoreAngles(StoreAngles(<<>>, "left_", Zip(_motor_names, left_angles)),
                          "right_", Zip(_motor_names, right_angles))
         ELSE StoreAngles(<<>>, "", Zip(_motor_names, right_angles))
    ELSE <<>>

\* lines 205-220: the get_arm_angles(side) calls made, in order, each with
\* the reading it returned
Queries(robot_interface, left_angles, right_angles) ==
    IF robot_interface
    THEN IF config.bimanual
         THEN <<<<"left", left_angles>>, <<"right", right_angles>>>>
         ELSE <<<<"right", right_angles>>>>
    ELSE <<>>

\* lines 197-200: get_action() on a disconnected adapter
GetActionNotConnected ==
    /\ cpc = "idle"
    /\ ~is_connected
    /\ ret' = Outcome("get_action", "NotConnected")
    /\ UNCHANGED <<setup, fields, spawned, is_running, threadVars, loopVars, stopFut, cpc>>

\* the record built before the query raised is cached all the same
GetActionRaisesCachesPartial ==
    /\ cpc = "idle"
    /\ is_connected
    /\ ret' = Outcome("get_action", "raised")
    /\ _last_action' = << <<>> >>
    /\ UNCHANGED <<setup, _telegrip_system, _is_connected, _telegrip_thread, _loop,
                   spawned, is_running, threadVars, loopVars, stopFut, cpc>>

\* lines 205-222, 229-231: the control loop is missing or a get_arm_angles
\* query raises; the exception is re-raised and nothing is stored
GetActionRaises ==
    /\ cpc = "idle"
    /\ is_connected
    /\ ret' = Outcome("get_action", "raised")
    /\ UNCHANGED <<setup, fields, spawned, is_running, threadVars, loopVars, stopFut, cpc>>

\* lines 202-227: the queries return; the record is cached and returned
GetActionReturns ==
    /\ cpc = "idle"
    /\ is_connected
    /\ \E robot_interface \in BOOLEAN, left_angles \in AngleSeqs, right_angles \in AngleSeqs :
          LET action == BuildAction(robot_interface, left_angles, right_angles)
          IN /\ _last_action' = <<action>>
             /\ ret' = Result("get_action", "ok", action,
                              Queries(robot_interface, left_angles, right_angles),
                              IF robot_interface THEN "robot_interface" ELSE "no_robot_interface")
    /\ UNCHANGED <<setup, _telegrip_system, _is_connected, _telegrip_thread, _loop,
                   spawned, is_running, threadVars, loopVars, stopFut, cpc>>

\* ------------------------------------------------------------------------
\* get_teleop_events(), lines 233-266
\* ------------------------------------------------------------------------
\* the raw event sequences get_vr_events() may hand out (their "type" tags)
EventSeqs == UNION {[1..n -> EventTypes] : n \in 0..MaxEvents}

\* what the subsystem answers to one pull: it has no get_vr_events attribute,
\* get_vr_events() raises, or it returns a sequence of raw events
Pulls ==
    {[kind |-> k, raw |-> <<>>] : k \in {"no_get_vr_events", "raises"}}
        \cup {[kind |-> "returns", raw |-> raw] : raw \in EventSeqs}

\* lines 246-252: every signal starts false
NoEvents == [k \in EventKeys |-> FALSE]

\* each matching event building a fresh record instead of updating the one
\* at hand
FoldEventOverwrites(events, event_type) ==
    IF event_type = "button_a"
    THEN [k \in EventKeys |-> k \in {"SUCCESS", "TERMINATE_EPISODE"}]
    ELSE IF event_type = "button_b"
         THEN [k \in EventKeys |-> k \in {"RERECORD_EPISODE", "TERMINATE_EPISODE"}]
         ELSE events

\* lines 255-264: the effect of one raw event on the record
FoldEvent(events, event_type) ==
    IF event_type = "button_a"
    THEN [events EXCEPT !["SUCCESS"] = TRUE, !["TERMINATE_EPISODE"] = TRUE]
    ELSE IF event_type = "button_b"
         THEN [events EXCEPT !["RERECORD_EPISODE"] = TRUE, !["TERMINATE_EPISODE"] = TRUE]
         ELSE events

\* lines 254-266: the loop over the drained events, in order
RECURSIVE FoldEvents(_, _)
FoldEvents(events, raw) ==
    IF raw = <<>> THEN events ELSE FoldEvents(FoldEvent(events, Head(raw)), Tail(raw))

\* the pull without the try/except of lines 238-242
DrainVrEventsNoExcept(pull) ==
    IF _telegrip_system = None \/ pull.kind = "no_get_vr_events"
    THEN [raised |-> FALSE, events |-> <<>>]
    ELSE IF pull.kind = "raises"
         THEN [raised |-> TRUE, events |-> <<>>]
         ELSE [raised |-> FALSE, events |-> pull.raw]

\* _drain_vr_events, lines 233-242: nothing without a subsystem or without
\* its get_vr_events attribute; the exception of a raising pull is caught
\* and nothing is returned
DrainVrEvents(pull) ==
    IF _telegrip_system = None \/ pull.kind = "no_get_vr_events"
    THEN [raised |-> FALSE, events |-> <<>>]
    ELSE IF pull.kind = "raises"
         THEN [raised |-> FALSE, events |-> <<>>]
         ELSE [raised |-> FALSE, events |-> pull.raw]

\* what happened to the pull, kept with the result of the call
DrainDetail(pull) ==
    IF _telegrip_system = None THEN "no_subsystem"
    ELSE IF pull.kind = "no_get_vr_events" THEN "no_get_vr_events"
    ELSE IF pull.kind = "raises" THEN "pull_raised" ELSE "pulled"

\* get_teleop_events, lines 244-266
GetTeleopEvents ==
    /\ cpc = "idle"
    /\ \E pull \in Pulls :
          LET drained == DrainVrEvents(pull)
          IN ret' = IF drained.raised
                    THEN Outcome("get_teleop_events", "raised")
                    ELSE Result("get_teleop_events", "ok",
                                FoldEvents(NoEvents, drained.events), drained.events,
                                DrainDetail(pull))
    /\ UNCHANGED <<setup, fields, spawned, is_running, threadVars, loopVars, stopFut, cpc>>

\* ------------------------------------------------------------------------
\* disconnect(), lines 273-305
\* ------------------------------------------------------------------------
\* the references cleared before the error of lines 275-276 leaves
DisconnectNotConnectedClears ==
    /\ cpc = "idle"
    /\ ~is_connected
    /\ _loop' = None
    /\ _telegrip_system' = None
    /\ _telegrip_thread' = None
    /\ _is_connected' = FALSE
    /\ ret' = Outcome("disconnect", "NotConnected")
    /\ UNCHANGED <<setup, _last_action, spawned, is_running, threadVars, loopVars, stopFut, cpc>>

\* lines 275-276: disconnect() on a disconnected adapter
DisconnectNotConnected ==
    /\ cpc = "idle"
    /\ ~is_connected
    /\ ret' = Outcome("disconnect", "NotConnected")
    /\ UNCHANGED <<setup, fields, spawned, is_running, threadVars, loopVars, stopFut, cpc>>

\* the except handler of disconnect, lines 303-305: log and re-raise
DisconnectExcept ==
    /\ cpc' = "idle"
    /\ ret' = Outcome("disconnect", "raised")

\* the loop's stop requested together with the scheduling of stop(), before
\* the wait for its completion
DisconnectBeginStopsLoopFirst ==
    /\ cpc = "idle"
    /\ is_connected
    /\ IF _loop = None
       THEN /\ _is_connected' = FALSE
            /\ cpc' = "idle"
            /\ ret' = Outcome("disconnect", "ok")
            /\ UNCHANGED <<stopFut, loopStop>>
       ELSE IF loopState[_loop] = "closed"
            THEN /\ DisconnectExcept
                 /\ UNCHANGED <<_is_connected, stopFut, loopStop>>
            ELSE /\ stopFut' = [state |-> "pending", loop |-> _loop, sys |-> _telegrip_system]
                 /\ loopStop' = [loopStop EXCEPT ![_loop] = TRUE]
                 /\ cpc' = "stop_wait"
                 /\ UNCHANGED <<_is_connected, ret>>
    /\ UNCHANGED <<setup, _telegrip_system, _telegrip_thread, _loop, _last_action,
                   spawned, is_running, threadVars, loopState>>

\* lines 281-285, 300: with no loop assigned the teardown block is skipped and
\* only the flag is reset; scheduling stop() on a closed loop raises;
\* otherwise stop() is scheduled on self._loop and the caller waits
DisconnectBegin ==
    /\ cpc = "idle"
    /\ is_connected
    /\ IF _loop = None
       THEN /\ _is_connected' = FALSE
            /\ cpc' = "idle"
            /\ ret' = Outcome("disconnect", "ok")
            /\ UNCHANGED stopFut
       ELSE IF loopState[_loop] = "closed"
            THEN /\ DisconnectExcept
                 /\ UNCHANGED <<_is_connected, stopFut>>
            ELSE /\ stopFut' = [state |-> "pending", loop |-> _loop, sys |-> _telegrip_system]
                 /\ cpc' = "stop_wait"
                 /\ UNCHANGED <<_is_connected, ret>>
    /\ UNCHANGED <<setup, _telegrip_system, _telegrip_thread, _loop, _last_action,
                   spawned, is_running, threadVars, loopVars>>

\* fut.result() called without its timeout: the caller goes on only once the
\* stop() coroutine has returned or raised
DisconnectStopLoopNoTimeout ==
    /\ cpc = "stop_wait"
    /\ stopFut.state \in {"done", "raised"}
    /\ IF loopState[_loop] = "closed"
       THEN /\ DisconnectExcept
            /\ UNCHANGED loopStop
       ELSE /\ loopStop' = [loopStop EXCEPT ![_loop] = TRUE]
            /\ cpc' = "join"
            /\ UNCHANGED ret
    /\ stopFut' = NoFuture
    /\ UNCHANGED <<setup, fields, spawned, is_running, threadVars, loopState>>

\* lines 285-290: fut.result(timeout=5) has returned, raised or timed out
\* (all three continue the same way) and the future is dropped; loop.stop is
\* scheduled on self._loop, which raises when that loop is closed
DisconnectStopLoop ==
    /\ cpc = "stop_wait"
    /\ IF loopState[_loop] = "closed"
       THEN /\ DisconnectExcept
            /\ UNCHANGED loopStop
       ELSE /\ loopStop' = [loopStop EXCEPT ![_loop] = TRUE]
            /\ cpc' = "join"
            /\ UNCHANGED ret
    /\ stopFut' = NoFuture
    /\ UNCHANGED <<setup, fields, spawned, is_running, threadVars, loopState>>

\* lines 293-301: join(timeout=5) has returned, the thread dead or not; the
\* references are cleared and the flag reset
DisconnectClear ==
    /\ cpc = "join"
    /\ _loop' = None
    /\ _telegrip_system' = None
    /\ _telegrip_thread' = None
    /\ _is_connected' = FALSE
    /\ cpc' = "idle"
    /\ ret' = Outcome("disconnect", "ok")
    /\ UNCHANGED <<setup, _last_action, spawned, threadVars, loopVars, stopFut>>
    /\ Forget

\* ------------------------------------------------------------------------
\* calibrate / configure / send_feedback, lines 178-187 and 268-271
\* ------------------------------------------------------------------------
NoOpNames == {"calibrate", "configure", "send_feedback"}

\* a no-op that drops the cached action
NoOpCallDropsCache ==
    /\ cpc = "idle"
    /\ \E op \in NoOpNames : ret' = Outcome(op, "ok")
    /\ _last_action' = <<>>
    /\ UNCHANGED <<setup, _telegrip_system, _is_connected, _telegrip_thread, _loop,
                   spawned, is_running, threadVars, loopVars, stopFut, cpc>>

NoOpCall ==
    /\ cpc = "idle"
    /\ \E op \in NoOpNames : ret' = Outcome(op, "ok")
    /\ UNCHANGED <<setup, fields, spawned, is_running, threadVars, loopVars, stopFut, cpc>>

\* ------------------------------------------------------------------------
\* Specifications
\* ------------------------------------------------------------------------
\* run_telegrip_in_thread and the subsystem, whatever the caller does
Background ==
    \/ \E t \in Ids :
          \/ ThreadNewLoop(t)
          \/ ThreadRunUntilComplete(t)
          \/ StartSetsRunning(t)
          \/ StartReturns(t)
          \/ StartRaises(t)
          \/ ThreadRunForever(t)
          \/ ThreadLoopStopped(t)
          \/ ThreadFinally(t)
    \/ \E s \in Ids : SysSelfStop(s)
    \/ StopCompletes
    \/ StopRaises

\* the calls that are refused or raise without changing anything
Refusals ==
    \/ GetActionNotConnected
    \/ GetActionRaises
    \/ DisconnectNotConnected

\* connect() and disconnect()
Lifecycle ==
    \/ ConnectAlreadyConnected
    \/ ConnectConstructFails
    \/ ConnectThreadStartFails
    \/ ConnectSpawn
    \/ ConnectSettled
    \/ ConnectEngageOk
    \/ ConnectEngageFails
    \/ DisconnectBegin
    \/ DisconnectStopLoop
    \/ DisconnectClear

\* every configuration
Configs == [bimanual : BOOLEAN, autoconnect : BOOLEAN, enable_robot : BOOLEAN]
\* the configurations of one arm (nothing but get_action and action_features
\* reads the bimanual flag)
SingleArmConfigs == {c \in Configs : ~c.bimanual}

\* the lifecycle: up to MaxSpawn spawning connects
Init == InitWith(SingleArmConfigs, MaxSpawn)
Next == Lifecycle \/ Background
Spec == Init /\ [][Next]_vars

\* the lifecycle with the action polls, the refused calls and the no-op calls
InitPoll == InitWith(Configs, MaxPollSpawn)
NextAction == Lifecycle \/ Background \/ Refusals \/ GetActionReturns \/ NoOpCall
SpecAction == InitPoll /\ [][NextAction]_vars

\* the lifecycle with the event polls
InitEvents == InitWith(SingleArmConfigs, MaxPollSpawn)
NextEvents == Lifecycle \/ Background \/ GetTeleopEvents
SpecEvents == InitEvents /\ [][NextEvents]_vars

\* the lifecycle with the caller never held up for good inside disconnect():
\* both of its waits carry a timeout (lines 285 and 294), so a caller at
\* either wait takes its next step whatever the loop and the thread do;
\* nothing is assumed of the background thread or of the subsystem
InitLive == InitWith(SingleArmConfigs, MaxPollSpawn)
CallerProceeds == WF_vars(DisconnectStopLoop) /\ WF_vars(DisconnectClear)
SpecLive == InitLive /\ [][Next]_vars /\ CallerProceeds

TypeOK ==
    /\ _telegrip_system \in {None} \cup Ids
    /\ _telegrip_thread \in {None} \cup Ids
    /\ _loop \in {None} \cup Ids
    /\ _is_connected \in BOOLEAN
    /\ spawned \in 0..spawn_limit
    /\ cpc \in {"idle", "settle", "engage", "stop_wait", "join"}

\* ------------------------------------------------------------------------
\* Steps of the calls, as the properties below name them
\* ------------------------------------------------------------------------
\* the first step of a connect() call
ConnectFirstStep ==
    \/ ConnectAlreadyConnected
    \/ ConnectConstructFails
    \/ ConnectThreadStartFails
    \/ ConnectSpawn

\* a step in which connect() ends by raising out of its try block
ConnectFailure == ConnectConstructFails \/ ConnectThreadStartFails \/ ConnectEngageFails

\* a step in which connect() returns
ConnectReturns == (ConnectSettled \/ ConnectEngageOk) /\ cpc' = "idle"

\* a step in which a disconnect() call accepted on a connected adapter ends
DisconnectEnds == (DisconnectBegin \/ DisconnectStopLoop \/ DisconnectClear) /\ cpc' = "idle"

\* the first step of a get_action() or disconnect() call
PollOrDisconnectFirstStep ==
    \/ GetActionNotConnected
    \/ GetActionRaises
    \/ GetActionReturns
    \/ DisconnectNotConnected
    \/ DisconnectBegin

\* a step in which a get_teleop_events() call ends: the only call that
\* leaves its name in ret and touches nothing else
TeleopEventsEnds ==
    /\ cpc = "idle"
    /\ ret'.op = "get_teleop_events"
    /\ UNCHANGED <<setup, fields, spawned, is_running, threadVars, loopVars, stopFut, cpc>>

\* the adapter holds no subsystem, loop or thread
ReferencesCleared == _telegrip_system = None /\ _loop = None /\ _telegrip_thread = None

\* ------------------------------------------------------------------------
\* Properties
\* ------------------------------------------------------------------------
\* C1: whenever a disconnect() call accepted on a connected adapter ends,
\* whatever the stop routine, the loop and the thread did, is_connected is
\* false.
DisconnectLeavesDisconnected ==
    [][DisconnectEnds => ~is_connected']_vars

\* C2: whenever a disconnect() call accepted on a connected adapter ends, the
\* subsystem, loop and thread references are all None.
DisconnectClearsReferences ==
    [][DisconnectEnds => ReferencesCleared']_vars

\* C3: whenever connect() fails during setup, the adapter holds no subsystem,
\* loop or thread reference afterwards.
FailedConnectClearsReferences ==
    [][ConnectFailure => ReferencesCleared']_vars

\* C4: whenever connect() fails during setup, the failure reaches the caller
\* and is_connected is false afterwards whatever the subsystem reports: the
\* handshake flag is down.
FailedConnectLeavesDisconnected ==
    [][ConnectFailure =>
          /\ ret' = Outcome("connect", "raised")
          /\ cpc' = "idle"
          /\ ~is_connected'
          /\ ~_is_connected']_vars

\* C4 witness: a connect() has failed while the subsystem it started reports
\* running.
FailedConnectWhileRunning ==
    /\ cpc = "idle"
    /\ ret = Outcome("connect", "raised")
    /\ _telegrip_system # None
    /\ is_running[_telegrip_system]

\* C5: whenever connect() returns without raising, is_connected is true.
ReturnedConnectIsConnected ==
    [][ConnectReturns => is_connected']_vars

\* C6: connect() on a connected adapter fails with AlreadyConnected, creates
\* no subsystem and no thread and leaves every field as it was.
ConnectOnConnectedRefused ==
    [][(is_connected /\ ConnectFirstStep) =>
          /\ ret' = Outcome("connect", "AlreadyConnected")
          /\ cpc' = "idle"
          /\ UNCHANGED <<fields, spawned, is_running, threadVars, loopVars, stopFut>>]_vars

\* C6 witness: a connect() has been refused on a connected adapter.
RefusedConnect ==
    /\ ret = Outcome("connect", "AlreadyConnected")
    /\ is_connected
    /\ _loop # None

\* C7: get_action() and disconnect() on an adapter that is not connected fail
\* with NotConnected, reach no subsystem, loop or thread and leave every
\* field, the cached action included, as it was.
PollOnDisconnectedRefused ==
    [][(~is_connected /\ PollOrDisconnectFirstStep) =>
          /\ ret'.op \in {"get_action", "disconnect"}
          /\ ret'.outcome = "NotConnected"
          /\ cpc' = "idle"
          /\ UNCHANGED <<fields, spawned, is_running, threadVars, loopVars, stopFut>>]_vars

\* C7 witness: disconnect() has been refused while the adapter held a
\* subsystem that stopped reporting running, its handshake flag and a cached
\* action.
RefusedDisconnect ==
    /\ ret = Outcome("disconnect", "NotConnected")
    /\ _telegrip_system # None
    /\ _is_connected
    /\ _last_action # <<>>

\* C8: get_teleop_events() succeeds in every state and returns a record with
\* exactly the five signal keys; without a subsystem, or when the pull
\* raises, all five are false.
TeleopEventsAlwaysSucceeds ==
    [][TeleopEventsEnds =>
          /\ ret'.outcome = "ok"
          /\ DOMAIN ret'.value = EventKeys
          /\ (_telegrip_system = None \/ ret'.detail = "pull_raised")
                => \A k \in EventKeys : ret'.value[k] = FALSE]_vars

\* C8 witness: the pull has raised on a connected adapter.
PullRaisedWhileConnected ==
    /\ ret.op = "get_teleop_events"
    /\ ret.detail = "pull_raised"
    /\ is_connected

\* the signals the events of a sequence assert
Has(raw, types) == \E i \in DOMAIN raw : raw[i] \in types

\* C9: the record folded from the events of one poll says success iff some
\* event is button_a, rerecord iff some event is button_b, terminate iff
\* some event is either, never failure nor intervention; every sequence with
\* the same event types, in any order and multiplicity, folds to it too.
FoldIsUnion ==
    (ret.op = "get_teleop_events" /\ ret.outcome = "ok") =>
        /\ ret.value["SUCCESS"] = Has(ret.events, {"button_a"})
        /\ ret.value["RERECORD_EPISODE"] = Has(ret.events, {"button_b"})
        /\ ret.value["TERMINATE_EPISODE"] = Has(ret.events, {"button_a", "button_b"})
        /\ ret.value["FAILURE"] = FALSE
        /\ ret.value["IS_INTERVENTION"] = FALSE
        /\ \A other \in EventSeqs :
              Range(other) = Range(ret.events) => FoldEvents(NoEvents, other) = ret.value

\* C9 witness: one poll has folded a button_b followed by a button_a.
FoldedBothButtons ==
    /\ ret.op = "get_teleop_events"
    /\ ret.events = <<"button_b", "button_a">>

\* C10: every get_action() that returns hands out a record whose key set is
\* exactly action_features.
ActionKeysAreFeatures ==
    (ret.op = "get_action" /\ ret.outcome = "ok") => DOMAIN ret.value = action_features

\* C11: with a robot interface handing out six angles per side, get_action()
\* gives the i-th joint name the i-th angle: in bimanual mode the left arm is
\* queried for the left_ keys and the right arm for the right_ keys; in
\* single-arm mode only the right arm is queried, for the unprefixed keys.
JointsTakeTheirAngles ==
    (ret.op = "get_action" /\ ret.outcome = "ok" /\ ret.detail = "robot_interface") =>
        IF config.bimanual
        THEN /\ Len(ret.events) = 2
             /\ ret.events[1][1] = "left"
             /\ ret.events[2][1] = "right"
             /\ \A i \in 1..6 :
                   /\ ret.value["left_" \o _motor_names[i] \o ".pos"] = ret.events[1][2][i]
                   /\ ret.value["right_" \o _motor_names[i] \o ".pos"] = ret.events[2][2][i]
             /\ (ret.events[1][2] = <<1, 2, 3, 4, 5, 6>> /\ ret.events[2][2] = <<7, 8, 9, 10, 11, 12>>)
                   => /\ ret.value["left_shoulder_pan.pos"] = 1
                      /\ ret.value["left_gripper.pos"] = 6
                      /\ ret.value["right_shoulder_pan.pos"] = 7
                      /\ ret.value["right_gripper.pos"] = 12
        ELSE /\ Len(ret.events) = 1
             /\ ret.events[1][1] = "right"
             /\ \A i \in 1..6 : ret.value[_motor_names[i] \o ".pos"] = ret.events[1][2][i]
             /\ ret.events[1][2] = <<7, 8, 9, 10, 11, 12>>
                   => ret.value["shoulder_pan.pos"] = 7 /\ ret.value["elbow_flex.pos"] = 9

\* C11 witness: a bimanual poll has read 1..6 on the left arm and 7..12 on
\* the right arm.
BimanualPollRead ==
    /\ config.bimanual
    /\ ret.op = "get_action"
    /\ ret.events = <<<<"left", <<1, 2, 3, 4, 5, 6>>>>, <<"right", <<7, 8, 9, 10, 11, 12>>>>>>

\* C12: in every state, connected or not, action_features is the six keys
\* <motor>.pos when bimanual is false and the twelve keys left_<motor>.pos,
\* right_<motor>.pos when it is true, and feedback_features is empty.
FeaturesFollowBimanual ==
    /\ action_features =
          IF config.bimanual
          THEN {"left_shoulder_pan.pos", "left_shoulder_lift.pos", "left_elbow_flex.pos",
                "left_wrist_flex.pos", "left_wrist_roll.pos", "left_gripper.pos",
                "right_shoulder_pan.pos", "right_shoulder_lift.pos", "right_elbow_flex.pos",
                "right_wrist_flex.pos", "right_wrist_roll.pos", "right_gripper.pos"}
          ELSE {"shoulder_pan.pos", "shoulder_lift.pos", "elbow_flex.pos",
                "wrist_flex.pos", "wrist_roll.pos", "gripper.pos"}
    /\ Cardinality(action_features) = IF config.bimanual THEN 12 ELSE 6
    /\ feedback_features = {}

\* C12 witness: a bimanual adapter is connected.
BimanualConnected == config.bimanual /\ is_connected

\* C13: a disconnect() call that has begun its teardown always ends, whether
\* the stop routine completes, raises or never finishes and whether the
\* background thread exits or not.
DisconnectEventuallyEnds ==
    (cpc \in {"stop_wait", "join"}) ~> (cpc = "idle")

\* C13 witness: disconnect() has returned although the background thread is
\* still running its loop.
DisconnectedWhileThreadRuns ==
    /\ ret = Outcome("disconnect", "ok")
    /\ cpc = "idle"
    /\ \E t \in Ids : tpc[t] \in {"in_start", "start_running", "forever"}

\* one of the three references goes from an object to None
ReferenceDropped ==
    \/ _telegrip_system # None /\ _telegrip_system' = None
    \/ _loop # None /\ _loop' = None
    \/ _telegrip_thread # None /\ _telegrip_thread' = None

\* C14: disconnect() tears down in a fixed order. The stop routine is only
\* scheduled, onto the adapter's loop, by the caller's first step, which runs
\* nothing of it; the routine itself only advances on a loop a background
\* thread is running; the loop's stop is requested only by the step that
\* ends the wait for the routine; the references are dropped, all three at
\* once, only by the step that ends the join.
TeardownInOrder ==
    [][/\ (stopFut'.state = "pending" /\ stopFut.state # "pending") =>
             /\ cpc = "idle" /\ cpc' = "stop_wait"
             /\ stopFut'.loop = _loop /\ stopFut'.sys = _telegrip_system
             /\ UNCHANGED <<fields, is_running, loopVars, threadVars>>
       /\ (stopFut.state = "pending" /\ stopFut'.state \in {"done", "raised"}) =>
             /\ Running(stopFut.loop)
             /\ UNCHANGED <<fields, cpc, ret>>
       /\ (\E l \in Ids : loopStop'[l] /\ ~loopStop[l]) =>
             /\ cpc = "stop_wait" /\ cpc' = "join"
             /\ loopStop'[_loop]
             /\ UNCHANGED <<fields, is_running, threadVars>>
       /\ ReferenceDropped =>
             /\ cpc = "join" /\ cpc' = "idle"
             /\ ReferencesCleared'
             /\ ~_is_connected']_vars

\* C14 witness: the teardown has reached the join, the loop's stop requested
\* and the references still held.
JoiningWithReferences ==
    /\ cpc = "join"
    /\ ~ReferencesCleared
    /\ _loop # None
    /\ loopStop[_loop]

\* the held subsystem is reporting running
HeldSystemRuns == _telegrip_system # None /\ is_running[_telegrip_system]

\* C15: is_connected is true exactly when a subsystem object is held, that
\* object reports itself running and the handshake flag is set; and a step
\* in which the held subsystem stops reporting running while the caller does
\* nothing leaves is_connected false.
ConnectedIffThree ==
    /\ [](is_connected <=> (HeldSystemRuns /\ _is_connected))
    /\ [][(HeldSystemRuns /\ ~HeldSystemRuns' /\ UNCHANGED <<fields, cpc, ret>>)
             => ~is_connected']_vars

\* C15 witness: connect() returned and start() returned on the adapter's
\* loop, nothing was asked of the adapter since, and the subsystem has
\* stopped reporting running: the flag and the object are still there.
SubsystemStoppedByItself ==
    /\ cpc = "idle"
    /\ ret = Outcome("connect", "ok")
    /\ _is_connected
    /\ _telegrip_system # None
    /\ ~is_running[_telegrip_system]
    /\ \E t \in Ids : tpc[t] = "forever" /\ tloop[t] = _loop
    /\ ~is_connected

\* C16: a get_action() whose query raises ends by raising, hands out no
\* record and leaves the cached last action as it was; a get_action() that
\* returns leaves the cached last action equal to the record it returned.
PollCachesOnlyOnSuccess ==
    [][/\ GetActionRaises =>
             /\ ret' = Outcome("get_action", "raised")
             /\ UNCHANGED _last_action
       /\ GetActionReturns =>
             /\ ret'.outcome = "ok"
             /\ _last_action' = <<ret'.value>>]_vars

\* C16 witness: a poll has raised on a connected adapter that still caches
\* the six-key record of an earlier successful poll.
RaisedPollKeepsCache ==
    /\ ret = Outcome("get_action", "raised")
    /\ is_connected
    /\ _last_action # <<>>
    /\ _last_action[1] # <<>>

\* C17: calibrate(), configure() and send_feedback() return normally and
\* leave every field of the adapter (subsystem, loop, thread, handshake flag,
\* cached action), the configuration and therefore action_features and
\* feedback_features as they were, connected or not; is_calibrated is true in
\* every state.
NoOpsChangeNothing ==
    /\ []is_calibrated
    /\ [][NoOpCall =>
             /\ ret'.outcome = "ok"
             /\ UNCHANGED <<fields, config>>
             /\ action_features' = action_features
             /\ feedback_features' = feedback_features]_vars

\* C17 witness: a no-op has returned on a connected adapter that caches an
\* action record.
NoOpOnConnected ==
    /\ ret.op \in NoOpNames
    /\ ret.outcome = "ok"
    /\ is_connected
    /\ _telegrip_thread # None
    /\ _loop # None
    /\ _last_action # <<>>

\* the background threads that were started and have not ended
Alive == {t \in Ids : tpc[t] \notin {"unborn", "dead"}}

\* C18: at most one background thread spawned by the adapter is alive at
\* any time.
AtMostOneThreadAlive == Cardinality(Alive) <= 1

\* C19: in every state where disconnect() can pass its connectivity check
\* (no call of the adapter is in progress and is_connected is true), _loop
\* is assigned and that loop has not been closed.
ConnectedHasOpenLoop ==
    (cpc = "idle" /\ is_connected) => (_loop # None /\ loopState[_loop] = "open")

====
